---- MODULE Spec2Model ----
(***************************************************************************)
(* d2q9-bgk lattice Boltzmann scheme (src/4.c): the time-step loop of      *)
(* main, timestep (accelerate_flow, then the fused propagate / rebound /   *)
(* collision sweep), av_velocity, calc_reynolds and write_values.          *)
(*                                                                         *)
(* A C float is modelled as an exact rational <<n, d>> in lowest terms     *)
(* with d > 0, extended with the IEEE non-finite values: <<0, 0>> is NaN,  *)
(* <<1, 0>> is +inf and <<-1, 0>> is -inf.  Rounding of finite results to  *)
(* 24 bits is not modelled (sqrtf excepted, which rounds to a fixed grid). *)
(***************************************************************************)
EXTENDS Integers, Sequences, FiniteSets, TLC

\* ------------------------------------------------------------------------
\* float arithmetic
\* ------------------------------------------------------------------------

RECURSIVE GCD(_, _)
GCD(a, b) == IF b = 0 THEN a ELSE GCD(b, a % b)

Abs(n) == IF n < 0 THEN 0 - n ELSE n

Sign(n) == IF n < 0 THEN 0 - 1 ELSE IF n > 0 THEN 1 ELSE 0

NaN == <<0, 0>>

Inf(s) == <<s, 0>>

Zero == <<0, 1>>

One == <<1, 1>>

IsNaN(a) == a[2] = 0 /\ a[1] = 0

IsInf(a) == a[2] = 0 /\ a[1] # 0

IsFinite(a) == a[2] # 0

\* the float nearest n/d: lowest terms, positive denominator
Rat(n, d) ==
  IF d = 0 THEN <<Sign(n), 0>>
  ELSE LET g == GCD(Abs(n), Abs(d))
           s == IF d < 0 THEN 0 - 1 ELSE 1
       IN <<s * (n \div g), s * (d \div g)>>

Neg(a) == <<0 - a[1], a[2]>>

\* a + b
Add(a, b) ==
  IF IsNaN(a) \/ IsNaN(b) THEN NaN
  ELSE IF IsInf(a) /\ IsInf(b) THEN (IF a[1] = b[1] THEN a ELSE NaN)
  ELSE IF IsInf(a) THEN a
  ELSE IF IsInf(b) THEN b
  ELSE LET g == GCD(a[2], b[2])
       IN Rat(a[1] * (b[2] \div g) + b[1] * (a[2] \div g), (a[2] \div g) * b[2])

\* a - b
Sub(a, b) == Add(a, Neg(b))

\* a * b
Mul(a, b) ==
  IF IsNaN(a) \/ IsNaN(b) THEN NaN
  ELSE IF IsInf(a) \/ IsInf(b)
    THEN (IF a[1] = 0 \/ b[1] = 0 THEN NaN ELSE Inf(Sign(a[1]) * Sign(b[1])))
  ELSE LET g1 == GCD(Abs(a[1]), b[2])
           g2 == GCD(Abs(b[1]), a[2])
       IN Rat((a[1] \div g1) * (b[1] \div g2), (a[2] \div g2) * (b[2] \div g1))

\* a / b: x/0 is +-inf, 0/0 and inf/inf are NaN (the sign of a zero is not kept)
Div(a, b) ==
  IF IsNaN(a) \/ IsNaN(b) THEN NaN
  ELSE IF IsInf(b) THEN (IF IsInf(a) THEN NaN ELSE Zero)
  ELSE IF IsInf(a) THEN Inf(a[1] * (IF b[1] < 0 THEN 0 - 1 ELSE 1))
  ELSE IF b[1] = 0 THEN (IF a[1] = 0 THEN NaN ELSE Inf(Sign(a[1])))
  ELSE Mul(a, Rat(b[2], b[1]))

\* a > 0.f: every comparison with NaN is false
GtZero(a) == ~IsNaN(a) /\ a[1] > 0

\* (float)n of an int
IntToFloat(n) == <<n, 1>>

RECURSIVE ISqrtIn(_, _, _)
ISqrtIn(m, lo, hi) ==
  IF lo >= hi THEN lo
  ELSE LET mid == (lo + hi + 1) \div 2
       IN IF mid * mid <= m THEN ISqrtIn(m, mid, hi) ELSE ISqrtIn(m, lo, mid - 1)

\* the largest r with r * r <= m
ISqrt(m) == ISqrtIn(m, 0, IF m < 46340 THEN m ELSE 46340)

\* the grid sqrtf rounds to
SqrtScale == 16

\* sqrtf(a): NaN below zero, the root rounded down to a multiple of 1/SqrtScale
Sqrtf(a) ==
  IF IsNaN(a) \/ a[1] < 0 THEN NaN
  ELSE IF IsInf(a) THEN a
  ELSE Rat(ISqrt((a[1] * SqrtScale * SqrtScale) \div a[2]), SqrtScale)


\* ------------------------------------------------------------------------
\* program constants and inputs
\* ------------------------------------------------------------------------

NSPEEDS == 9

Dirs == 0 .. (NSPEEDS - 1)

\* largest grid extent explored (nx and ny range over 2 .. MaxN)
MaxN == 3

\* largest iteration count explored (maxIters ranges over 0 .. MaxIters)
MaxIters == 2

\* the two malloc'ed t_speed objects
Bufs == {"A", "B"}

\* what uninitialised malloc'ed floats may hold
Garbage == {Rat(7, 1), NaN}

Densities == {Rat(36, 1)}

Accels == {Zero, Rat(1, 2), Rat(2, 1)}

Omegas == {One, Rat(1, 2)}

ReynoldsDims == {2}

\* the parameter files read by initialise
ParamFiles ==
  [nx : 2 .. MaxN, ny : 2 .. MaxN, maxIters : 0 .. MaxIters,
   reynolds_dim : ReynoldsDims, density : Densities, accel : Accels,
   omega : Omegas]

NCells(p) == p.nx * p.ny

CellIdx(p) == 0 .. (NCells(p) - 1)

\* the obstacle files read by initialise, as the mask they produce: none,
\* a single blocked cell, or every cell blocked
ObstacleFiles(p) ==
  {[i \in CellIdx(p) |-> 0]}
    \cup {[i \in CellIdx(p) |-> IF i = k THEN 1 ELSE 0] : k \in CellIdx(p)}
    \cup {[i \in CellIdx(p) |-> 1]}

\* ------------------------------------------------------------------------
\* initialise
\* ------------------------------------------------------------------------

\* the main grid after initialise: w0, w1 x 4, w2 x 4 in every cell
InitCells(p) ==
  LET w0 == Div(Mul(p.density, Rat(4, 1)), Rat(9, 1))
      w1 == Div(p.density, Rat(9, 1))
      w2 == Div(p.density, Rat(36, 1))
  IN [d \in Dirs |-> [i \in CellIdx(p) |->
        IF d = 0 THEN w0 ELSE IF d <= 4 THEN w1 ELSE w2]]

\* the scratch grid after initialise: allocated, never written
InitTmpCells(p, g) == [d \in Dirs |-> [i \in CellIdx(p) |-> g]]

\* av_vels after initialise: allocated, never written
InitAvVels(p, g) == [t \in 0 .. (p.maxIters - 1) |-> g]

\* ------------------------------------------------------------------------
\* accelerate_flow
\* ------------------------------------------------------------------------

AccelW1(p) == Div(Mul(p.density, p.accel), Rat(9, 1))

AccelW2(p) == Div(Mul(p.density, p.accel), Rat(36, 1))

\* the row accelerate_flow modifies
AccelRow(p) == p.ny - 2

\* AccelGuard without the test of speeds3
AccelGuardNoSpeeds3(p, f, obst, i) ==
  /\ obst[i] = 0
  /\ GtZero(Sub(f[6][i], AccelW2(p)))
  /\ GtZero(Sub(f[7][i], AccelW2(p)))

\* the condition under which a cell of the row is updated
AccelGuard(p, f, obst, i) ==
  /\ obst[i] = 0
  /\ GtZero(Sub(f[3][i], AccelW1(p)))
  /\ GtZero(Sub(f[6][i], AccelW2(p)))
  /\ GtZero(Sub(f[7][i], AccelW2(p)))

\* AccelerateCell adding w1 where w2 belongs
AccelerateCellWrongWeight(p, f, obst, ii) ==
  LET i == ii + AccelRow(p) * p.nx
      w1 == AccelW1(p)
      w2 == AccelW2(p)
  IN IF AccelGuard(p, f, obst, i)
       THEN [f EXCEPT ![1][i] = Add(f[1][i], w1),
                      ![5][i] = Add(f[5][i], w1),
                      ![8][i] = Add(f[8][i], w2),
                      ![3][i] = Sub(f[3][i], w1),
                      ![6][i] = Sub(f[6][i], w2),
                      ![7][i] = Sub(f[7][i], w2)]
       ELSE f

\* the field after the loop body of accelerate_flow has run for column ii
AccelerateCell(p, f, obst, ii) ==
  LET i == ii + AccelRow(p) * p.nx
      w1 == AccelW1(p)
      w2 == AccelW2(p)
  IN IF AccelGuard(p, f, obst, i)
       THEN [f EXCEPT ![1][i] = Add(f[1][i], w1),
                      ![5][i] = Add(f[5][i], w2),
                      ![8][i] = Add(f[8][i], w2),
                      ![3][i] = Sub(f[3][i], w1),
                      ![6][i] = Sub(f[6][i], w2),
                      ![7][i] = Sub(f[7][i], w2)]
       ELSE f

\* ------------------------------------------------------------------------
\* timestep: the sweep over all cells
\* ------------------------------------------------------------------------

c_sq_inv == Rat(3, 1)

w0 == Rat(4, 9)

w1 == Rat(1, 9)

w2 == Rat(1, 36)

Half == Rat(1, 2)

\* YSouth with a reflecting boundary in place of the wrap
YSouthReflect(jj, ny) == IF jj = 0 THEN 0 ELSE jj - 1

\* indices of the axis-direction neighbours, periodic
YSouth(jj, ny) == IF jj = 0 THEN jj + ny - 1 ELSE jj - 1

YNorth(jj, ny) == (jj + 1) % ny

\* XEast stopping at the last column in place of the wrap
XEastClamp(ii, nx) == IF ii + 1 < nx THEN ii + 1 ELSE ii

XEast(ii, nx) == (ii + 1) % nx

\* XWest with a reflecting boundary in place of the wrap
XWestReflect(ii, nx) == IF ii = 0 THEN 0 ELSE ii - 1

XWest(ii, nx) == IF ii = 0 THEN ii + nx - 1 ELSE ii - 1

\* for each direction, the index of the cell its value is propagated from
PullIndex(p, ii, jj) ==
  LET y_s == YSouth(jj, p.ny)
      y_n == YNorth(jj, p.ny)
      x_e == XEast(ii, p.nx)
      x_w == XWest(ii, p.nx)
  IN [d \in Dirs |->
       CASE d = 0 -> ii + jj * p.nx
         [] d = 1 -> x_w + jj * p.nx
         [] d = 2 -> ii + y_s * p.nx
         [] d = 3 -> x_e + jj * p.nx
         [] d = 4 -> ii + y_n * p.nx
         [] d = 5 -> x_w + y_s * p.nx
         [] d = 6 -> x_e + y_s * p.nx
         [] d = 7 -> x_e + y_n * p.nx
         [] d = 8 -> x_w + y_n * p.nx]

\* s0 .. s8 of cell (ii, jj)
Propagate(p, f, ii, jj) ==
  LET src == PullIndex(p, ii, jj) IN [d \in Dirs |-> f[d][src[d]]]

\* Rebound with the diagonals mirrored about the wrong axis
ReboundWrongDiagonal(s) ==
  [d \in 1 .. 8 |->
    CASE d = 1 -> s[3]
      [] d = 2 -> s[4]
      [] d = 3 -> s[1]
      [] d = 4 -> s[2]
      [] d = 5 -> s[6]
      [] d = 6 -> s[5]
      [] d = 7 -> s[8]
      [] d = 8 -> s[7]]

\* the eight values an obstacle cell writes (speeds0 is not assigned)
Rebound(s) ==
  [d \in 1 .. 8 |->
    CASE d = 1 -> s[3]
      [] d = 2 -> s[4]
      [] d = 3 -> s[1]
      [] d = 4 -> s[2]
      [] d = 5 -> s[7]
      [] d = 6 -> s[8]
      [] d = 7 -> s[5]
      [] d = 8 -> s[6]]

LocalDensity(s) ==
  Add(Add(Add(Add(Add(Add(Add(Add(s[0], s[1]), s[2]), s[3]), s[4]), s[5]), s[6]), s[7]), s[8])

VelX(s, local_density) ==
  Div(Sub(Add(Add(s[1], s[5]), s[8]), Add(Add(s[3], s[6]), s[7])), local_density)

VelY(s, local_density) ==
  Div(Sub(Add(Add(s[2], s[5]), s[6]), Add(Add(s[4], s[7]), s[8])), local_density)

\* Equ without the term in c * c
EquLinear(w, local_density, c, u_sq) ==
  Mul(Mul(w, local_density),
      Sub(Add(One, Mul(c, c_sq_inv)), Mul(u_sq, Mul(Half, c_sq_inv))))

\* w * local_density * (1 + c * c_sq_inv + c * c * (0.5 * c_sq_inv * c_sq_inv)
\*                        - u_sq * (0.5 * c_sq_inv))
Equ(w, local_density, c, u_sq) ==
  Mul(Mul(w, local_density),
      Sub(Add(Add(One, Mul(c, c_sq_inv)),
              Mul(Mul(c, c), Mul(Mul(Half, c_sq_inv), c_sq_inv))),
          Mul(u_sq, Mul(Half, c_sq_inv))))

\* d_equ0 .. d_equ8
DEqu(local_density, u_x, u_y) ==
  LET u_sq == Add(Mul(u_x, u_x), Mul(u_y, u_y))
  IN [d \in Dirs |->
       CASE d = 0 -> Mul(Mul(w0, local_density),
                         Sub(One, Mul(u_sq, Mul(Half, c_sq_inv))))
         [] d = 1 -> Equ(w1, local_density, u_x, u_sq)
         [] d = 2 -> Equ(w1, local_density, u_y, u_sq)
         [] d = 3 -> Equ(w1, local_density, Neg(u_x), u_sq)
         [] d = 4 -> Equ(w1, local_density, Neg(u_y), u_sq)
         [] d = 5 -> Equ(w2, local_density, Add(u_x, u_y), u_sq)
         [] d = 6 -> Equ(w2, local_density, Add(Neg(u_x), u_y), u_sq)
         [] d = 7 -> Equ(w2, local_density, Sub(Neg(u_x), u_y), u_sq)
         [] d = 8 -> Equ(w2, local_density, Sub(u_x, u_y), u_sq)]

\* the nine values a fluid cell writes: s + omega * (d_equ - s)
Collision(p, s) ==
  LET local_density == LocalDensity(s)
      d_equ == DEqu(local_density, VelX(s, local_density), VelY(s, local_density))
  IN [d \in Dirs |-> Add(s[d], Mul(p.omega, Sub(d_equ[d], s[d])))]

\* sqrtf(u_x * u_x + u_y * u_y) of a cell holding s
Speed(s) ==
  LET local_density == LocalDensity(s)
      u_x == VelX(s, local_density)
      u_y == VelY(s, local_density)
  IN Sqrtf(Add(Mul(u_x, u_x), Mul(u_y, u_y)))

\* SweepCell storing speeds1 of a fluid cell in its east neighbour as well
SweepCellSpill(p, f, tmp, obst, ii, jj) ==
  LET i == ii + jj * p.nx
      e == XEast(ii, p.nx) + jj * p.nx
      s == Propagate(p, f, ii, jj)
  IN IF obst[i] # 0
       THEN LET r == Rebound(s)
            IN [d \in Dirs |-> IF d = 0 THEN tmp[d] ELSE [tmp[d] EXCEPT ![i] = r[d]]]
       ELSE LET c == Collision(p, s)
            IN [d \in Dirs |->
                 IF d = 1 THEN [tmp[d] EXCEPT ![e] = c[d], ![i] = c[d]]
                          ELSE [tmp[d] EXCEPT ![i] = c[d]]]

\* the scratch grid after the loop body of timestep has run for cell (ii, jj)
SweepCell(p, f, tmp, obst, ii, jj) ==
  LET i == ii + jj * p.nx
      s == Propagate(p, f, ii, jj)
  IN IF obst[i] # 0
       THEN LET r == Rebound(s)
            IN [d \in Dirs |-> IF d = 0 THEN tmp[d] ELSE [tmp[d] EXCEPT ![i] = r[d]]]
       ELSE LET c == Collision(p, s)
            IN [d \in Dirs |-> [tmp[d] EXCEPT ![i] = c[d]]]

\* the (direction, index) pairs of scratch the loop body assigns for cell i
SweepWrites(obst, i) ==
  IF obst[i] # 0 THEN {<<d, i>> : d \in 1 .. 8} ELSE {<<d, i>> : d \in Dirs}

\* ------------------------------------------------------------------------
\* av_velocity, calc_reynolds, total_density, write_values
\* ------------------------------------------------------------------------

\* the nine speeds of cell i
CellOf(f, i) == [d \in Dirs |-> f[d][i]]

\* tot_u and tot_cells of av_velocity after cells 0 .. n-1, in loop order
RECURSIVE AvSums(_, _, _)
AvSums(f, obst, n) ==
  IF n = 0 THEN [tot_u |-> Zero, tot_cells |-> 0]
  ELSE LET r == AvSums(f, obst, n - 1)
       IN IF obst[n - 1] = 0
            THEN [tot_u |-> Add(r.tot_u, Speed(CellOf(f, n - 1))),
                  tot_cells |-> r.tot_cells + 1]
            ELSE r

av_velocity(p, f, obst) ==
  LET r == AvSums(f, obst, NCells(p))
  IN Div(r.tot_u, IntToFloat(r.tot_cells))

calc_reynolds(p, f, obst) ==
  LET viscosity == Mul(Div(One, Rat(6, 1)), Sub(Div(Rat(2, 1), p.omega), One))
  IN Div(Mul(av_velocity(p, f, obst), IntToFloat(p.reynolds_dim)), viscosity)

RECURSIVE TotalUpTo(_, _)
TotalUpTo(f, n) ==
  IF n = 0 THEN Zero
  ELSE Add(TotalUpTo(f, n - 1), LocalDensity(CellOf(f, n - 1)))

total_density(p, f) == TotalUpTo(f, NCells(p))

\* FinalStateLine with the pressure of an obstacle cell taken from its speeds
FinalStateLineFromSpeeds(p, f, obst, i) ==
  LET s == CellOf(f, i)
      c_sq == Div(One, Rat(3, 1))
      local_density == LocalDensity(s)
  IN IF obst[i] # 0
       THEN [ii |-> i % p.nx, jj |-> i \div p.nx, u_x |-> Zero, u_y |-> Zero,
             u |-> Zero, pressure |-> Mul(local_density, c_sq), obstacle |-> obst[i]]
       ELSE [ii |-> i % p.nx, jj |-> i \div p.nx,
             u_x |-> VelX(s, local_density), u_y |-> VelY(s, local_density),
             u |-> Speed(s), pressure |-> Mul(local_density, c_sq),
             obstacle |-> obst[i]]

\* one line of final_state.dat
FinalStateLine(p, f, obst, i) ==
  LET s == CellOf(f, i)
      c_sq == Div(One, Rat(3, 1))
      local_density == LocalDensity(s)
  IN IF obst[i] # 0
       THEN [ii |-> i % p.nx, jj |-> i \div p.nx, u_x |-> Zero, u_y |-> Zero,
             u |-> Zero, pressure |-> Mul(p.density, c_sq), obstacle |-> obst[i]]
       ELSE [ii |-> i % p.nx, jj |-> i \div p.nx,
             u_x |-> VelX(s, local_density), u_y |-> VelY(s, local_density),
             u |-> Speed(s), pressure |-> Mul(local_density, c_sq),
             obstacle |-> obst[i]]

write_values(p, f, obst, av) ==
  [final_state |-> [k \in 1 .. NCells(p) |-> FinalStateLine(p, f, obst, k - 1)],
   av_vels |-> [k \in 1 .. p.maxIters |-> av[k - 1]]]

\* ------------------------------------------------------------------------
\* timestep as a whole: the sweep in loop order
\* ------------------------------------------------------------------------

\* the scratch grid after the loop bodies of cells 0 .. n-1
RECURSIVE SweepUpTo(_, _, _, _, _)
SweepUpTo(p, f, tmp, obst, n) ==
  IF n = 0 THEN tmp
  ELSE SweepCell(p, f, SweepUpTo(p, f, tmp, obst, n - 1), obst,
                 (n - 1) % p.nx, (n - 1) \div p.nx)

\* tot_u and tot_cells after the loop bodies of cells 0 .. n-1
RECURSIVE SweepSums(_, _, _, _)
SweepSums(p, f, obst, n) ==
  IF n = 0 THEN [tot_u |-> Zero, tot_cells |-> 0]
  ELSE LET r == SweepSums(p, f, obst, n - 1)
       IN IF obst[n - 1] = 0
            THEN [tot_u |-> Add(r.tot_u,
                                Speed(Propagate(p, f, (n - 1) % p.nx, (n - 1) \div p.nx))),
                  tot_cells |-> r.tot_cells + 1]
            ELSE r

\* what timestep returns for the (accelerated) grid f
SweepResult(p, f, obst) ==
  LET r == SweepSums(p, f, obst, NCells(p))
  IN Div(r.tot_u, IntToFloat(r.tot_cells))

\* ------------------------------------------------------------------------
\* state
\* ------------------------------------------------------------------------

VARIABLES
  params,      \* t_param, as read by initialise
  obstacles,   \* the obstacle mask, one int per cell
  heap,        \* the two t_speed objects: heap[b][d][i] is speeds<d>[i] of b
  cells,       \* main's pointer to the main grid
  tmp_cells,   \* main's pointer to the scratch grid
  av_vels,     \* av_vels[t], t in 0 .. maxIters-1
  pc,          \* where the program is
  tt,          \* main's loop counter
  ii,          \* column counter of the running loop
  jj,          \* row counter of timestep's sweep
  tot_u,       \* timestep's accumulator
  tot_cells,   \* timestep's counter of fluid cells
  loc,         \* x_e, x_w, y_s, y_n and s0..s8 of the last loop body run
  reynolds,    \* the Reynolds number printed
  out,         \* what write_values wrote
  written,     \* history: the (direction, index) pairs of scratch assigned in this pass
  visits,      \* history: the cells each loop of this iteration has run for, in order
  passes,      \* history: the (cells, tmp_cells) arguments of each timestep call
  last,        \* history: what the last step did
  par,         \* the per-cell workers of a sweep run in parallel
  mem          \* the allocations of initialise that returned NULL

vars ==
  <<params, obstacles, heap, cells, tmp_cells, av_vels, pc, tt, ii, jj, tot_u,
    tot_cells, loc, reynolds, out, written, visits, passes, last, par, mem>>

NoLoc == [x_e |-> 0, x_w |-> 0, y_s |-> 0, y_n |-> 0, s |-> [d \in Dirs |-> Zero]]

NoOut == [final_state |-> <<>>, av_vels |-> <<>>]

NoVisits == [accel |-> <<>>, sweep |-> <<>>]

NoLast == [op |-> "none", idx |-> 0, applied |-> FALSE]

NoPar == [w |-> <<>>, tmp0 |-> <<>>, stores |-> 0, raced |-> FALSE, reordered |-> FALSE]

\* every allocation of initialise has succeeded
NoMem == [failed |-> {}]

\* the state main is in when initialise has returned
AfterInitialise(p, obst, g) ==
  /\ params = p
  /\ obstacles = obst
  /\ heap = [b \in Bufs |-> IF b = "A" THEN InitCells(p) ELSE InitTmpCells(p, g)]
  /\ cells = "A"
  /\ tmp_cells = "B"
  /\ av_vels = InitAvVels(p, g)
  /\ pc = "loop"
  /\ tt = 0
  /\ ii = 0
  /\ jj = 0
  /\ tot_u = Zero
  /\ tot_cells = 0
  /\ loc = NoLoc
  /\ reynolds = Zero
  /\ out = NoOut
  /\ written = {}
  /\ visits = NoVisits
  /\ passes = <<>>
  /\ last = NoLast
  /\ par = NoPar
  /\ mem = NoMem

\* a flow that is driven is followed for one iteration only: the exact
\* rationals of a second relaxed pass around an obstacle exceed TLC's integers
RunParams == {p \in ParamFiles : p.accel = Rat(1, 2) => p.maxIters <= 1}

Init ==
  \E p \in RunParams : \E obst \in ObstacleFiles(p) : \E g \in Garbage :
    AfterInitialise(p, obst, g)

\* ------------------------------------------------------------------------
\* main's loop and timestep, one loop body per step
\* ------------------------------------------------------------------------

\* for (tt < maxIters): call timestep, which calls accelerate_flow
LoopTest ==
  /\ pc = "loop"
  /\ tt < params.maxIters
  /\ pc' = "accel"
  /\ tot_u' = Zero
  /\ tot_cells' = 0
  /\ ii' = 0
  /\ jj' = AccelRow(params)
  /\ written' = {}
  /\ visits' = NoVisits
  /\ passes' = Append(passes, [cells |-> cells, tmp_cells |-> tmp_cells])
  /\ last' = [op |-> "call", idx |-> 0, applied |-> FALSE]
  /\ UNCHANGED <<params, obstacles, heap, cells, tmp_cells, av_vels, tt, loc,
                 reynolds, out, par, mem>>

\* the loop is left
LoopExit ==
  /\ pc = "loop"
  /\ ~(tt < params.maxIters)
  /\ pc' = "reynolds"
  /\ last' = [op |-> "exit", idx |-> 0, applied |-> FALSE]
  /\ UNCHANGED <<params, obstacles, heap, cells, tmp_cells, av_vels, tt, ii, jj,
                 tot_u, tot_cells, loc, reynolds, out, written, visits, passes, par, mem>>

\* one body of accelerate_flow's loop, its index inside the arrays
AccelCell ==
  /\ pc = "accel"
  /\ ii < params.nx
  /\ ii + jj * params.nx \in CellIdx(params)
  /\ heap' = [heap EXCEPT ![cells] = AccelerateCell(params, heap[cells], obstacles, ii)]
  /\ ii' = ii + 1
  /\ visits' = [visits EXCEPT !.accel = Append(@, ii + jj * params.nx)]
  /\ last' = [op |-> "accel", idx |-> ii + jj * params.nx,
              applied |-> AccelGuard(params, heap[cells], obstacles, ii + jj * params.nx)]
  /\ UNCHANGED <<params, obstacles, cells, tmp_cells, av_vels, pc, tt, jj, tot_u,
                 tot_cells, loc, reynolds, out, written, passes, par, mem>>

\* AccelReturn with the loop left one column early
AccelReturnEarly ==
  /\ pc = "accel"
  /\ ~(ii < params.nx - 1)
  /\ pc' = "sweep"
  /\ ii' = 0
  /\ jj' = 0
  /\ last' = [op |-> "accel_return", idx |-> 0, applied |-> FALSE]
  /\ UNCHANGED <<params, obstacles, heap, cells, tmp_cells, av_vels, tt, tot_u,
                 tot_cells, loc, reynolds, out, written, visits, passes, par, mem>>

\* accelerate_flow returns, the sweep starts
AccelReturn ==
  /\ pc = "accel"
  /\ ~(ii < params.nx)
  /\ pc' = "sweep"
  /\ ii' = 0
  /\ jj' = 0
  /\ last' = [op |-> "accel_return", idx |-> 0, applied |-> FALSE]
  /\ UNCHANGED <<params, obstacles, heap, cells, tmp_cells, av_vels, tt, tot_u,
                 tot_cells, loc, reynolds, out, written, visits, passes, par, mem>>

\* one body of the sweep's inner loop, and the loop counters' step
SweepStep ==
  /\ pc = "sweep"
  /\ jj < params.ny
  /\ LET i == ii + jj * params.nx
         s == Propagate(params, heap[cells], ii, jj)
     IN /\ heap' = [heap EXCEPT ![tmp_cells] =
                      SweepCell(params, heap[cells], heap[tmp_cells], obstacles, ii, jj)]
        /\ loc' = [x_e |-> XEast(ii, params.nx), x_w |-> XWest(ii, params.nx),
                   y_s |-> YSouth(jj, params.ny), y_n |-> YNorth(jj, params.ny),
                   s |-> s]
        /\ IF obstacles[i] = 0
             THEN /\ tot_u' = Add(tot_u, Speed(s))
                  /\ tot_cells' = tot_cells + 1
             ELSE UNCHANGED <<tot_u, tot_cells>>
        /\ written' = written \cup SweepWrites(obstacles, i)
        /\ visits' = [visits EXCEPT !.sweep = Append(@, i)]
        /\ last' = [op |-> "sweep", idx |-> i, applied |-> obstacles[i] = 0]
  /\ IF ii + 1 < params.nx
       THEN ii' = ii + 1 /\ jj' = jj
       ELSE ii' = 0 /\ jj' = jj + 1
  /\ UNCHANGED <<params, obstacles, cells, tmp_cells, av_vels, pc, tt, reynolds,
                 out, passes, par, mem>>

\* TimestepReturn with the mean stored in the first element of av_vels
TimestepReturnFirstSlot ==
  /\ pc = "sweep"
  /\ ~(jj < params.ny)
  /\ av_vels' = [av_vels EXCEPT ![0] = Div(tot_u, IntToFloat(tot_cells))]
  /\ pc' = "swap"
  /\ last' = [op |-> "return", idx |-> 0, applied |-> FALSE]
  /\ UNCHANGED <<params, obstacles, heap, cells, tmp_cells, tt, ii, jj, tot_u,
                 tot_cells, loc, reynolds, out, written, visits, passes, par, mem>>

\* timestep returns tot_u / (float)tot_cells into av_vels[tt]
TimestepReturn ==
  /\ pc = "sweep"
  /\ ~(jj < params.ny)
  /\ av_vels' = [av_vels EXCEPT ![tt] = Div(tot_u, IntToFloat(tot_cells))]
  /\ pc' = "swap"
  /\ last' = [op |-> "return", idx |-> tt, applied |-> FALSE]
  /\ UNCHANGED <<params, obstacles, heap, cells, tmp_cells, tt, ii, jj, tot_u,
                 tot_cells, loc, reynolds, out, written, visits, passes, par, mem>>

\* Swap with tmp_cells left pointing at the grid just written
SwapAliased ==
  /\ pc = "swap"
  /\ cells' = tmp_cells
  /\ tmp_cells' = tmp_cells
  /\ tt' = tt + 1
  /\ pc' = "loop"
  /\ last' = [op |-> "swap", idx |-> tt, applied |-> FALSE]
  /\ UNCHANGED <<params, obstacles, heap, av_vels, ii, jj, tot_u, tot_cells, loc,
                 reynolds, out, written, visits, passes, par, mem>>

\* the pointers are exchanged, tt++
Swap ==
  /\ pc = "swap"
  /\ cells' = tmp_cells
  /\ tmp_cells' = cells
  /\ tt' = tt + 1
  /\ pc' = "loop"
  /\ last' = [op |-> "swap", idx |-> tt, applied |-> FALSE]
  /\ UNCHANGED <<params, obstacles, heap, av_vels, ii, jj, tot_u, tot_cells, loc,
                 reynolds, out, written, visits, passes, par, mem>>

\* printf of calc_reynolds(params, cells, obstacles)
Reynolds ==
  /\ pc = "reynolds"
  /\ reynolds' = calc_reynolds(params, heap[cells], obstacles)
  /\ pc' = "write"
  /\ last' = [op |-> "reynolds", idx |-> 0, applied |-> FALSE]
  /\ UNCHANGED <<params, obstacles, heap, cells, tmp_cells, av_vels, tt, ii, jj,
                 tot_u, tot_cells, loc, out, written, visits, passes, par, mem>>

\* write_values(params, cells, obstacles, av_vels)
WriteValues ==
  /\ pc = "write"
  /\ out' = write_values(params, heap[cells], obstacles, av_vels)
  /\ pc' = "done"
  /\ last' = [op |-> "write", idx |-> 0, applied |-> FALSE]
  /\ UNCHANGED <<params, obstacles, heap, cells, tmp_cells, av_vels, tt, ii, jj,
                 tot_u, tot_cells, loc, reynolds, written, visits, passes, par, mem>>

Next ==
  \/ LoopTest
  \/ LoopExit
  \/ AccelCell
  \/ AccelReturn
  \/ SweepStep
  \/ TimestepReturn
  \/ Swap
  \/ Reynolds
  \/ WriteValues

Spec == Init /\ [][Next]_vars

\* ------------------------------------------------------------------------
\* timestep called once on an arbitrary grid
\* ------------------------------------------------------------------------

\* number of test grids explored (seeds 0 .. MaxSeed)
MaxSeed == 3

\* the speeds of the test grids range over 0 .. SpeedMod-1
SpeedMod == 7

\* a grid whose speeds differ from cell to cell and direction to direction
TestGrid(p, k) ==
  [d \in Dirs |-> [i \in CellIdx(p) |->
     Rat(((2 * k + 1) * d + (k + 3) * i + k) % SpeedMod, 1)]]

\* a grid without any fluid in it
EmptyGrid(p) == [d \in Dirs |-> [i \in CellIdx(p) |-> Zero]]

TestGrids(p) == {TestGrid(p, k) : k \in 0 .. MaxSeed} \cup {EmptyGrid(p)}

PassParams ==
  [nx : 2 .. MaxN, ny : 2 .. MaxN, maxIters : {1}, reynolds_dim : ReynoldsDims,
   density : Densities, accel : {Zero, Rat(1, 2), One}, omega : Omegas]

PassInit ==
  \E p \in PassParams : \E obst \in ObstacleFiles(p) : \E g \in {NaN} :
    \E f \in TestGrids(p) :
      /\ heap = [b \in Bufs |-> IF b = "A" THEN f ELSE InitTmpCells(p, g)]
      /\ params = p
      /\ obstacles = obst
      /\ cells = "A"
      /\ tmp_cells = "B"
      /\ av_vels = InitAvVels(p, g)
      /\ pc = "loop"
      /\ tt = 0
      /\ ii = 0
      /\ jj = 0
      /\ tot_u = Zero
      /\ tot_cells = 0
      /\ loc = NoLoc
      /\ reynolds = Zero
      /\ out = NoOut
      /\ written = {}
      /\ visits = NoVisits
      /\ passes = <<>>
      /\ last = NoLast
      /\ par = NoPar
      /\ mem = NoMem

PassSpec == PassInit /\ [][Next]_vars

\* ------------------------------------------------------------------------
\* the sweep with its loop bodies run in parallel by MaxThreads threads that
\* take the cells in any order: a thread runs the loop body of timestep for
\* a cell as it is written,
\* tot_u += ... and ++tot_cells being a read and a later write of the
\* shared variables
\* ------------------------------------------------------------------------

\* number of threads that run loop bodies at the same time
MaxThreads == 2

ParParams ==
  [nx : {2, 3}, ny : {2}, maxIters : {1}, reynolds_dim : ReynoldsDims,
   density : Densities, accel : {Zero}, omega : {One}]

\* the masks of a parallel sweep: no obstacle, cell 0 blocked, every cell blocked
ParObstacleFiles(p) ==
  {[i \in CellIdx(p) |-> 0], [i \in CellIdx(p) |-> IF i = 0 THEN 1 ELSE 0],
   [i \in CellIdx(p) |-> 1]}

ParInit ==
  \E p \in ParParams : \E obst \in ParObstacleFiles(p) : \E g \in {Rat(7, 1)} :
    \E f \in {TestGrid(p, 1)} :
      /\ heap = [b \in Bufs |-> IF b = "A" THEN f ELSE InitTmpCells(p, g)]
      /\ params = p
      /\ obstacles = obst
      /\ cells = "A"
      /\ tmp_cells = "B"
      /\ av_vels = InitAvVels(p, g)
      /\ pc = "par_sweep"
      /\ tt = 0
      /\ ii = 0
      /\ jj = 0
      /\ tot_u = Zero
      /\ tot_cells = 0
      /\ loc = NoLoc
      /\ reynolds = Zero
      /\ out = NoOut
      /\ written = {}
      /\ visits = NoVisits
      /\ passes = <<[cells |-> "A", tmp_cells |-> "B"]>>
      /\ last = NoLast
      /\ par = [w |-> [c \in CellIdx(p) |-> [pc |-> "ready", u |-> Zero, n |-> 0, seen |-> 0]],
                tmp0 |-> InitTmpCells(p, g), stores |-> 0, raced |-> FALSE,
                reordered |-> FALSE]
      /\ mem = NoMem

\* worker c: propagate, rebound or collision, and the read of tot_u and tot_cells
ParBody(c) ==
  /\ pc = "par_sweep"
  /\ par.w[c].pc = "ready"
  /\ Cardinality({b \in CellIdx(params) : par.w[b].pc = "loaded"}) < MaxThreads
  /\ heap' = [heap EXCEPT ![tmp_cells] =
                SweepCell(params, heap[cells], heap[tmp_cells], obstacles,
                          c % params.nx, c \div params.nx)]
  /\ par' = [par EXCEPT
               !.w[c] =
                 IF obstacles[c] = 0
                   THEN [pc |-> "loaded", u |-> tot_u, n |-> tot_cells, seen |-> par.stores]
                   ELSE [pc |-> "done", u |-> Zero, n |-> 0, seen |-> 0],
               !.reordered = @ \/ \E b \in CellIdx(params) : b < c /\ par.w[b].pc = "ready"]
  /\ written' = written \cup SweepWrites(obstacles, c)
  /\ UNCHANGED <<params, obstacles, cells, tmp_cells, av_vels, pc, tt, ii, jj, tot_u,
                 tot_cells, loc, reynolds, out, visits, passes, last, mem>>

\* worker c: the write of tot_u and tot_cells
ParStore(c) ==
  /\ pc = "par_sweep"
  /\ par.w[c].pc = "loaded"
  /\ tot_u' = Add(par.w[c].u,
                  Speed(Propagate(params, heap[cells], c % params.nx, c \div params.nx)))
  /\ tot_cells' = par.w[c].n + 1
  /\ par' = [par EXCEPT !.w[c] = [pc |-> "done", u |-> Zero, n |-> 0, seen |-> 0],
                        !.stores = @ + 1,
                        !.raced = @ \/ par.w[c].seen # par.stores]
  /\ UNCHANGED <<params, obstacles, heap, cells, tmp_cells, av_vels, pc, tt, ii, jj,
                 loc, reynolds, out, written, visits, passes, last, mem>>

\* every worker has finished: timestep returns
ParJoin ==
  /\ pc = "par_sweep"
  /\ \A c \in CellIdx(params) : par.w[c].pc = "done"
  /\ av_vels' = [av_vels EXCEPT ![tt] = Div(tot_u, IntToFloat(tot_cells))]
  /\ pc' = "par_done"
  /\ UNCHANGED <<params, obstacles, heap, cells, tmp_cells, tt, ii, jj, tot_u,
                 tot_cells, loc, reynolds, out, written, visits, passes, last, par, mem>>

ParNext ==
  \/ \E c \in CellIdx(params) : ParBody(c)
  \/ \E c \in CellIdx(params) : ParStore(c)
  \/ ParJoin

ParSpec == ParInit /\ [][ParNext]_vars

\* ------------------------------------------------------------------------
\* main on runs that start with other values in speeds0 of the obstacle cells
\* of the two grids
\* ------------------------------------------------------------------------

\* the values speeds0 of an obstacle cell starts with
RestValues(p) == {InitCells(p)[0][0], Rat(5, 1), NaN}

\* grid f with v in speeds0 of every obstacle cell
WithRest(f, obst, v) ==
  [f EXCEPT ![0] = [i \in DOMAIN f[0] |-> IF obst[i] # 0 THEN v ELSE f[0][i]]]

RestParams ==
  {p \in [nx : 2 .. MaxN, ny : {2}, maxIters : 0 .. MaxIters,
          reynolds_dim : ReynoldsDims, density : Densities,
          accel : {Zero, Rat(1, 2)}, omega : Omegas] :
     p.accel = Rat(1, 2) => p.maxIters <= 1}

RestObstacleFiles(p) ==
  {[i \in CellIdx(p) |-> IF i = k THEN 1 ELSE 0] : k \in {0, NCells(p) - 1}}
    \cup {[i \in CellIdx(p) |-> IF i \in {0, 1} THEN 1 ELSE 0]}
    \cup {[i \in CellIdx(p) |-> 1]}

RestInit ==
  \E p \in RestParams : \E obst \in RestObstacleFiles(p) :
    \E v1 \in RestValues(p) : \E v2 \in {Rat(7, 1), NaN} :
      /\ heap = [b \in Bufs |->
                   IF b = "A" THEN WithRest(InitCells(p), obst, v1)
                              ELSE WithRest(InitTmpCells(p, Rat(7, 1)), obst, v2)]
      /\ params = p
      /\ obstacles = obst
      /\ cells = "A"
      /\ tmp_cells = "B"
      /\ av_vels = InitAvVels(p, Rat(7, 1))
      /\ pc = "loop"
      /\ tt = 0
      /\ ii = 0
      /\ jj = 0
      /\ tot_u = Zero
      /\ tot_cells = 0
      /\ loc = NoLoc
      /\ reynolds = Zero
      /\ out = NoOut
      /\ written = {}
      /\ visits = NoVisits
      /\ passes = <<>>
      /\ last = NoLast
      /\ par = NoPar
      /\ mem = NoMem

RestSpec == RestInit /\ [][Next]_vars

\* ------------------------------------------------------------------------
\* one timestep on every grid of positive extent, single rows and single
\* columns included
\* ------------------------------------------------------------------------

EdgeParams ==
  [nx : 1 .. MaxN, ny : 1 .. MaxN, maxIters : {1}, reynolds_dim : ReynoldsDims,
   density : Densities, accel : {Zero, Rat(1, 2)}, omega : {One}]

EdgeObstacleFiles(p) ==
  {[i \in CellIdx(p) |-> 0], [i \in CellIdx(p) |-> IF i = 0 THEN 1 ELSE 0]}

EdgeInit ==
  \E p \in EdgeParams : \E obst \in EdgeObstacleFiles(p) : \E g \in {NaN} :
    \E f \in {TestGrid(p, 0), TestGrid(p, 1)} :
      /\ heap = [b \in Bufs |-> IF b = "A" THEN f ELSE InitTmpCells(p, g)]
      /\ params = p
      /\ obstacles = obst
      /\ cells = "A"
      /\ tmp_cells = "B"
      /\ av_vels = InitAvVels(p, g)
      /\ pc = "loop"
      /\ tt = 0
      /\ ii = 0
      /\ jj = 0
      /\ tot_u = Zero
      /\ tot_cells = 0
      /\ loc = NoLoc
      /\ reynolds = Zero
      /\ out = NoOut
      /\ written = {}
      /\ visits = NoVisits
      /\ passes = <<>>
      /\ last = NoLast
      /\ par = NoPar
      /\ mem = NoMem

\* the six stores of accelerate_flow made below the start of their arrays,
\* each landing in the last cell of the array allocated before its own
AccelerateBelow(p, f) ==
  LET n == NCells(p) - 1
      a1 == AccelW1(p)
      a2 == AccelW2(p)
  IN [f EXCEPT ![0][n] = Add(f[0][n], a1),
               ![4][n] = Add(f[4][n], a2),
               ![7][n] = Add(f[7][n], a2),
               ![2][n] = Sub(f[2][n], a1),
               ![5][n] = Sub(f[5][n], a2),
               ![6][n] = Sub(f[6][n], a2)]

\* one body of accelerate_flow's loop, its index ii + jj * nx below 0 (ny = 1):
\* obstacles and the speeds arrays are read and written outside their bounds.
\* The process is killed, or the words read fail the test and nothing is
\* stored, or they pass it and the stores land in neighbouring memory.
AccelCellOutOfBounds ==
  /\ pc = "accel"
  /\ ii < params.nx
  /\ ii + jj * params.nx \notin CellIdx(params)
  /\ \E outcome \in {"killed", "skipped", "stored"} :
       /\ pc' = IF outcome = "killed" THEN "crashed" ELSE pc
       /\ ii' = IF outcome = "killed" THEN ii ELSE ii + 1
       /\ heap' = IF outcome = "stored"
                    THEN [heap EXCEPT ![cells] = AccelerateBelow(params, heap[cells])]
                    ELSE heap
       /\ last' = [op |-> "accel", idx |-> ii + jj * params.nx,
                   applied |-> outcome = "stored"]
  /\ visits' = [visits EXCEPT !.accel = Append(@, ii + jj * params.nx)]
  /\ UNCHANGED <<params, obstacles, cells, tmp_cells, av_vels, tt, jj, tot_u,
                 tot_cells, loc, reynolds, out, written, passes, par, mem>>

EdgeNext ==
  \/ AccelCellOutOfBounds
  \/ Next

EdgeSpec == EdgeInit /\ [][EdgeNext]_vars

\* ------------------------------------------------------------------------
\* initialise followed allocation by allocation, each malloc free to return
\* NULL, and main run on what initialise leaves
\* ------------------------------------------------------------------------

\* at most this many of the unchecked allocations fail in one run
MaxAllocFailures == 1

AllocParams ==
  [nx : {2}, ny : {2}, maxIters : {1}, reynolds_dim : ReynoldsDims,
   density : Densities, accel : {Zero}, omega : {One}]

\* the 18 arrays in the order initialise allocates them:
\* tmp_cells->speeds0..8, then cells->speeds0..8
SpeedsAlloc(k) == IF k < NSPEEDS THEN <<"B", k>> ELSE <<"A", k - NSPEEDS>>

\* main has parsed the parameter file; nothing is allocated yet
AllocInit ==
  \E p \in AllocParams : \E g \in {NaN} :
    /\ params = p
    /\ obstacles = [i \in CellIdx(p) |-> 7]
    /\ heap = [b \in Bufs |-> InitTmpCells(p, g)]
    /\ cells = "A"
    /\ tmp_cells = "B"
    /\ av_vels = InitAvVels(p, g)
    /\ pc = "alloc_cells"
    /\ tt = 0
    /\ ii = 0
    /\ jj = 0
    /\ tot_u = Zero
    /\ tot_cells = 0
    /\ loc = NoLoc
    /\ reynolds = Zero
    /\ out = NoOut
    /\ written = {}
    /\ visits = NoVisits
    /\ passes = <<>>
    /\ last = NoLast
    /\ par = NoPar
    /\ mem = NoMem

\* *cells_ptr = malloc(...); if (*cells_ptr == NULL) die(...)
AllocCells ==
  /\ pc = "alloc_cells"
  /\ \E ok \in BOOLEAN :
       /\ pc' = IF ok THEN "alloc_tmp_cells" ELSE "died"
       /\ mem' = IF ok THEN mem ELSE [mem EXCEPT !.failed = @ \cup {<<"cells", 0>>}]
       /\ last' = [op |-> "malloc", idx |-> 0, applied |-> ok]
  /\ UNCHANGED <<params, obstacles, heap, cells, tmp_cells, av_vels, tt, ii, jj, tot_u,
                 tot_cells, loc, reynolds, out, written, visits, passes, par>>

\* *tmp_cells_ptr = malloc(...); if (*tmp_cells_ptr == NULL) die(...)
AllocTmpCells ==
  /\ pc = "alloc_tmp_cells"
  /\ \E ok \in BOOLEAN :
       /\ pc' = IF ok THEN "alloc_obstacles" ELSE "died"
       /\ mem' = IF ok THEN mem ELSE [mem EXCEPT !.failed = @ \cup {<<"tmp_cells", 0>>}]
       /\ last' = [op |-> "malloc", idx |-> 0, applied |-> ok]
  /\ UNCHANGED <<params, obstacles, heap, cells, tmp_cells, av_vels, tt, ii, jj, tot_u,
                 tot_cells, loc, reynolds, out, written, visits, passes, par>>

\* *obstacles_ptr = malloc(...); if (*obstacles_ptr == NULL) die(...)
AllocObstacles ==
  /\ pc = "alloc_obstacles"
  /\ \E ok \in BOOLEAN :
       /\ pc' = IF ok THEN "alloc_speeds" ELSE "died"
       /\ mem' = IF ok THEN mem ELSE [mem EXCEPT !.failed = @ \cup {<<"obstacles", 0>>}]
       /\ last' = [op |-> "malloc", idx |-> 0, applied |-> ok]
  /\ UNCHANGED <<params, obstacles, heap, cells, tmp_cells, av_vels, tt, ii, jj, tot_u,
                 tot_cells, loc, reynolds, out, written, visits, passes, par>>

\* one of the 18 assignments speeds<d> = malloc(...): the result is not tested
AllocSpeeds ==
  /\ pc = "alloc_speeds"
  /\ ii < 2 * NSPEEDS
  /\ \E ok \in BOOLEAN :
       /\ ok \/ Cardinality(mem.failed) < MaxAllocFailures
       /\ mem' = IF ok THEN mem ELSE [mem EXCEPT !.failed = @ \cup {SpeedsAlloc(ii)}]
       /\ last' = [op |-> "malloc", idx |-> ii, applied |-> ok]
  /\ ii' = IF ii = 2 * NSPEEDS - 1 THEN 0 ELSE ii + 1
  /\ pc' = IF ii = 2 * NSPEEDS - 1 THEN "init_cells" ELSE pc
  /\ UNCHANGED <<params, obstacles, heap, cells, tmp_cells, av_vels, tt, jj, tot_u,
                 tot_cells, loc, reynolds, out, written, visits, passes, par>>

\* the loop that stores w0, w1, w2 in cells and 0 in obstacles
InitDensities ==
  /\ pc = "init_cells"
  /\ heap' = [heap EXCEPT ![cells] = InitCells(params)]
  /\ obstacles' = [i \in CellIdx(params) |-> 0]
  /\ pc' = "read_obstacles"
  /\ last' = [op |-> "init", idx |-> 0, applied |-> FALSE]
  /\ UNCHANGED <<params, cells, tmp_cells, av_vels, tt, ii, jj, tot_u, tot_cells, loc,
                 reynolds, out, written, visits, passes, par, mem>>

\* the loop that reads the obstacle file
ReadObstacles ==
  /\ pc = "read_obstacles"
  /\ \E obst \in ObstacleFiles(params) : obstacles' = obst
  /\ pc' = "alloc_av_vels"
  /\ last' = [op |-> "obstacles", idx |-> 0, applied |-> FALSE]
  /\ UNCHANGED <<params, heap, cells, tmp_cells, av_vels, tt, ii, jj, tot_u, tot_cells,
                 loc, reynolds, out, written, visits, passes, par, mem>>

\* *av_vels_ptr = malloc(...); return EXIT_SUCCESS: the result is not tested
AllocAvVels ==
  /\ pc = "alloc_av_vels"
  /\ \E ok \in BOOLEAN :
       /\ ok \/ Cardinality(mem.failed) < MaxAllocFailures
       /\ mem' = IF ok THEN mem ELSE [mem EXCEPT !.failed = @ \cup {<<"av_vels", 0>>}]
       /\ last' = [op |-> "malloc", idx |-> 2 * NSPEEDS, applied |-> ok]
  /\ pc' = "loop"
  /\ UNCHANGED <<params, obstacles, heap, cells, tmp_cells, av_vels, tt, ii, jj, tot_u,
                 tot_cells, loc, reynolds, out, written, visits, passes, par>>

AllSpeeds(b) == {<<b, d>> : d \in Dirs}

\* the arrays the loop body of accelerate_flow dereferences for cell i
AccelDerefs(i) ==
  LET f == heap[cells]
  IN IF obstacles[i] # 0 THEN {}
     ELSE IF ~GtZero(Sub(f[3][i], AccelW1(params))) THEN {<<cells, 3>>}
     ELSE IF ~GtZero(Sub(f[6][i], AccelW2(params))) THEN {<<cells, 3>>, <<cells, 6>>}
     ELSE IF ~GtZero(Sub(f[7][i], AccelW2(params)))
            THEN {<<cells, 3>>, <<cells, 6>>, <<cells, 7>>}
     ELSE {<<cells, d>> : d \in {1, 3, 5, 6, 7, 8}}

\* the allocations the next step of the program dereferences
Derefs ==
  CASE pc = "init_cells" -> AllSpeeds(cells)
    [] pc = "accel" /\ ii < params.nx -> AccelDerefs(ii + AccelRow(params) * params.nx)
    [] pc = "sweep" /\ jj < params.ny ->
         AllSpeeds(cells) \cup
           (IF obstacles[ii + jj * params.nx] # 0
              THEN AllSpeeds(tmp_cells) \ {<<tmp_cells, 0>>}
              ELSE AllSpeeds(tmp_cells))
    [] pc = "sweep" /\ ~(jj < params.ny) -> {<<"av_vels", 0>>}
    [] pc = "reynolds" ->
         IF \E i \in CellIdx(params) : obstacles[i] = 0 THEN AllSpeeds(cells) ELSE {}
    [] pc = "write" ->
         (IF \E i \in CellIdx(params) : obstacles[i] = 0 THEN AllSpeeds(cells) ELSE {})
           \cup (IF params.maxIters > 0 THEN {<<"av_vels", 0>>} ELSE {})
    [] OTHER -> {}

\* the next step dereferences a NULL pointer and the process is killed; the
\* other outcome, the access hitting mapped memory, is the step itself
NullDeref ==
  /\ Derefs \cap mem.failed # {}
  /\ pc' = "crashed"
  /\ last' = [op |-> "sigsegv", idx |-> 0, applied |-> FALSE]
  /\ UNCHANGED <<params, obstacles, heap, cells, tmp_cells, av_vels, tt, ii, jj, tot_u,
                 tot_cells, loc, reynolds, out, written, visits, passes, par, mem>>

AllocNext ==
  \/ AllocCells
  \/ AllocTmpCells
  \/ AllocObstacles
  \/ AllocSpeeds
  \/ InitDensities
  \/ ReadObstacles
  \/ AllocAvVels
  \/ NullDeref
  \/ Next

AllocSpec == AllocInit /\ [][AllocNext]_vars

\* ------------------------------------------------------------------------
\* properties
\* ------------------------------------------------------------------------

\* the cells of the accelerated row, in loop order
AccelRowCells(p) == [k \in 1 .. p.nx |-> (k - 1) + (p.ny - 2) * p.nx]

\* all cells, in loop order
AllCellsInOrder(p) == [k \in 1 .. NCells(p) |-> k - 1]

InTimestep == pc \in {"accel", "sweep", "swap"}

\* the steps one iteration of main's loop takes
IterSteps(p) == p.nx + NCells(p) + 4

\* the steps the program still has to take
Remaining ==
  LET later == (params.maxIters - tt - 1) * IterSteps(params) + 3
  IN CASE pc = "loop" -> (params.maxIters - tt) * IterSteps(params) + 3
       [] pc = "accel" -> later + (params.nx - ii) + NCells(params) + 3
       [] pc = "sweep" -> later + (NCells(params) - (ii + jj * params.nx)) + 2
       [] pc = "swap" -> later + 1
       [] pc = "reynolds" -> 2
       [] pc = "write" -> 1
       [] OTHER -> 0

C1_PhaseInv ==
  /\ pc \in {"loop", "accel", "sweep", "swap", "reynolds", "write", "done"}
  /\ (pc = "sweep" \/ visits.sweep # <<>> \/ written # {})
       => visits.accel = AccelRowCells(params)
  /\ pc = "accel" => visits.sweep = <<>> /\ written = {}
  /\ pc = "swap" => visits.sweep = AllCellsInOrder(params)
  /\ Len(passes) = tt + (IF InTimestep THEN 1 ELSE 0)
  /\ tt <= params.maxIters
  /\ pc \in {"reynolds", "write", "done"} => tt = params.maxIters
  /\ Remaining >= 0
  /\ Remaining = 0 <=> pc = "done"

C1_PhaseStep ==
  /\ pc = "loop" => pc' = (IF tt < params.maxIters THEN "accel" ELSE "reynolds")
  /\ pc = "accel" => pc' \in {"accel", "sweep"} /\ heap'[tmp_cells] = heap[tmp_cells]
  /\ pc = "sweep" => pc' \in {"sweep", "swap"} /\ heap'[cells] = heap[cells]
  /\ pc = "swap" => pc' = "loop" /\ tt' = tt + 1 /\ heap' = heap
  /\ pc # "swap" => tt' = tt
  /\ pc \in {"reynolds", "write", "done"} => pc' \in {"write", "done"}
  /\ Remaining' = Remaining - 1

\* C1: in every run the phases come in strict sequence: in each iteration
\* accelerate_flow runs over its whole row before any cell of the sweep is
\* read or written, the sweep runs over the whole grid before the pointers are
\* swapped, the swap comes before the next iteration; exactly maxIters
\* iterations happen, nothing else happens between them, and the loop ends:
\* every step of the program lowers the count of the steps that remain, which
\* is zero exactly when main is done.
C1_PhasesInSequence == []C1_PhaseInv /\ [][C1_PhaseStep]_vars

C1_Witness == pc = "done" /\ tt = 2 /\ Len(passes) = 2 /\ Len(visits.sweep) = NCells(params)

\* the grid the final diagnostics read
FinalBuf == IF passes = <<>> THEN "A" ELSE passes[Len(passes)].tmp_cells

C2_BufferInv ==
  /\ cells # tmp_cells
  /\ \A t \in 1 .. Len(passes) :
       /\ passes[t].cells # passes[t].tmp_cells
       /\ t > 1 => passes[t].cells = passes[t - 1].tmp_cells
  /\ (pc \in {"loop", "reynolds", "write", "done"}) => cells = FinalBuf
  /\ (passes = <<>>) => heap["A"] = InitCells(params)
  /\ pc \in {"write", "done"} => reynolds = calc_reynolds(params, heap[FinalBuf], obstacles)
  /\ pc = "done" => out = write_values(params, heap[FinalBuf], obstacles, av_vels)

C2_BufferStep ==
  /\ pc = "swap" => heap' = heap /\ cells' = tmp_cells /\ tmp_cells' = cells
  /\ pc = "sweep" => heap'[cells] = heap[cells]
  /\ pc # "swap" => cells' = cells /\ tmp_cells' = tmp_cells

\* C2: the two grids are distinct at every iteration and only their roles
\* move: the grid iteration t+1 accelerates and reads is the grid the sweep
\* of iteration t wrote, the swap copies no value, and the Reynolds number and
\* final_state.dat are computed from the grid the last sweep wrote (the
\* initial grid when maxIters = 0).
C2_RolesAlternate == []C2_BufferInv /\ [][C2_BufferStep]_vars

C2_Witness ==
  /\ pc = "done"
  /\ Len(passes) = 2
  /\ cells = "A"
  /\ passes[2] = [cells |-> "B", tmp_cells |-> "A"]

\* C3 (as claimed): one sweep assigns every direction of every cell of the
\* scratch grid, speeds0 of obstacle cells included, so that no scratch value
\* is stale or uninitialised after the pass.
C3_AllScratchWritten ==
  pc = "swap" => written = {<<d, i>> : d \in Dirs, i \in CellIdx(params)}

\* k wrapped into 0 .. n-1, for k in -1 .. n
Wrap(k, n) == (k + n) % n

\* the step in x and in y from a cell to the cell direction d is pulled from
PullDx == [d \in Dirs |-> CASE d \in {1, 5, 8} -> 0 - 1 [] d \in {3, 6, 7} -> 1 [] OTHER -> 0]

PullDy == [d \in Dirs |-> CASE d \in {2, 5, 6} -> 0 - 1 [] d \in {4, 7, 8} -> 1 [] OTHER -> 0]

\* C4: for every cell (x, y) the sweep pulls direction 0 from (x, y), 1 from
\* (x-1, y), 2 from (x, y-1), 3 from (x+1, y), 4 from (x, y+1), 5 from
\* (x-1, y-1), 6 from (x+1, y-1), 7 from (x+1, y+1) and 8 from (x-1, y+1) of
\* the current grid, each coordinate wrapped periodically.
C4_PullSources ==
  last.op = "sweep" =>
    LET x == last.idx % params.nx
        y == last.idx \div params.nx
    IN /\ \A d \in Dirs :
            loc.s[d] = heap[cells][d][Wrap(x + PullDx[d], params.nx)
                                      + Wrap(y + PullDy[d], params.ny) * params.nx]
       /\ loc.x_w = Wrap(x - 1, params.nx)
       /\ loc.x_e = Wrap(x + 1, params.nx)
       /\ loc.y_s = Wrap(y - 1, params.ny)
       /\ loc.y_n = Wrap(y + 1, params.ny)
       /\ (x = 0 => loc.x_w = params.nx - 1)
       /\ (x = params.nx - 1 => loc.x_e = 0)
       /\ (y = 0 => loc.y_s = params.ny - 1)
       /\ (y = params.ny - 1 => loc.y_n = 0)

C4_Witness ==
  /\ last.op = "sweep"
  /\ last.idx = 0
  /\ params.nx = 3
  /\ params.ny = 3
  /\ loc.x_w = 2
  /\ loc.y_s = 2
  /\ loc.s[1] = heap[cells][1][2]
  /\ heap[cells][1][2] # heap[cells][1][0]
  /\ heap[cells][1][2] # heap[cells][1][1]

\* the direction opposite to d
Opposite == [d \in 1 .. 8 |-> CASE d = 1 -> 3 [] d = 2 -> 4 [] d = 3 -> 1 [] d = 4 -> 2
                                [] d = 5 -> 7 [] d = 6 -> 8 [] d = 7 -> 5 [] d = 8 -> 6]

C5_Mirrored ==
  (last.op = "sweep" /\ obstacles[last.idx] # 0) =>
    \A d \in 1 .. 8 : heap[tmp_cells][d][last.idx] = loc.s[Opposite[d]]

C5_NoCollision ==
  (pc = "sweep" /\ jj < params.ny /\ obstacles[ii + jj * params.nx] # 0) =>
    /\ tot_u' = tot_u
    /\ tot_cells' = tot_cells
    /\ \A d \in Dirs : \A c \in CellIdx(params) :
         (d = 0 \/ c # ii + jj * params.nx) => heap'[tmp_cells][d][c] = heap[tmp_cells][d][c]

\* C5: for every obstacle cell the sweep writes the pulled values mirrored
\* into scratch at the same cell (1 <-> 3, 2 <-> 4, 5 <-> 7, 6 <-> 8), and
\* applies no collision to that cell: nothing else of scratch changes and the
\* cell adds nothing to tot_u and tot_cells.
C5_BounceBack == []C5_Mirrored /\ [][C5_NoCollision]_vars

C5_Witness ==
  /\ last.op = "sweep"
  /\ obstacles[last.idx] # 0
  /\ loc.s[1] # loc.s[3]
  /\ loc.s[5] # loc.s[7]
  /\ loc.s[5] # loc.s[6]
  /\ heap[tmp_cells][5][last.idx] = loc.s[7]

\* the cell of the loop body accelerate_flow is about to run
AccelIdx == ii + (params.ny - 2) * params.nx

\* that cell passes the three tests on its values before the update
AccelUpdates ==
  LET f == heap[cells]
      a1 == Div(Mul(params.density, params.accel), Rat(9, 1))
      a2 == Div(Mul(params.density, params.accel), Rat(36, 1))
  IN /\ obstacles[AccelIdx] = 0
     /\ GtZero(Sub(f[3][AccelIdx], a1))
     /\ GtZero(Sub(f[6][AccelIdx], a2))
     /\ GtZero(Sub(f[7][AccelIdx], a2))

C6_AccelStep ==
  (pc = "accel" /\ ii < params.nx) =>
    LET f == heap[cells]
        g == heap'[cells]
        i == AccelIdx
        a1 == Div(Mul(params.density, params.accel), Rat(9, 1))
        a2 == Div(Mul(params.density, params.accel), Rat(36, 1))
    IN /\ AccelUpdates =>
            /\ g[1][i] = Add(f[1][i], a1)
            /\ g[5][i] = Add(f[5][i], a2)
            /\ g[8][i] = Add(f[8][i], a2)
            /\ g[3][i] = Sub(f[3][i], a1)
            /\ g[6][i] = Sub(f[6][i], a2)
            /\ g[7][i] = Sub(f[7][i], a2)
       /\ \A c \in CellIdx(params) :
            (\E d \in Dirs : g[d][c] # f[d][c]) => (c = i /\ AccelUpdates)

\* C6: on a grid of two rows or more, accelerate_flow updates a cell exactly
\* when the cell lies in row ny-2, is no obstacle, and speeds3 - w1 > 0,
\* speeds6 - w2 > 0 and speeds7 - w2 > 0 hold of its values before the update
\* (w1 = density * accel / 9, w2 = density * accel / 36); such a cell has
\* speeds 1, 5, 8 raised by w1, w2, w2 and speeds 3, 6, 7 lowered by w1, w2,
\* w2, all six together, and each cell of the row is visited once an iteration.
C6_AccelerateUpdate ==
  /\ [](pc \in {"sweep", "swap"} => visits.accel = AccelRowCells(params))
  /\ [][C6_AccelStep]_vars

C6_Witness ==
  /\ last.op = "accel"
  /\ last.applied
  /\ params.accel = Rat(1, 2)
  /\ last.idx \div params.nx = params.ny - 2
  /\ \E c \in CellIdx(params) : c \div params.nx = params.ny - 2 /\ c < last.idx

C7_AccelFrame ==
  (pc = "accel" /\ ii < params.nx) =>
    LET f == heap[cells]
        g == heap'[cells]
        i == AccelIdx
        a1 == Div(Mul(params.density, params.accel), Rat(9, 1))
        a2 == Div(Mul(params.density, params.accel), Rat(36, 1))
        skipped == \/ obstacles[i] # 0
                   \/ ~GtZero(Sub(f[3][i], a1))
                   \/ ~GtZero(Sub(f[6][i], a2))
                   \/ ~GtZero(Sub(f[7][i], a2))
    IN /\ \A c \in CellIdx(params) : \A d \in Dirs :
            (c \div params.nx # params.ny - 2 \/ c # i \/ skipped \/ d \in {0, 2, 4})
              => g[d][c] = f[d][c]
       /\ heap'[tmp_cells] = heap[tmp_cells]
       /\ obstacles' = obstacles

\* C7: on a grid of two rows or more, accelerate_flow leaves all nine values
\* unchanged in every cell that is outside row ny-2, is an obstacle, or fails
\* one of the three tests (a cell with speeds3 - w1 <= 0 is skipped, not
\* clamped); in a cell it updates it leaves speeds 0, 2 and 4 unchanged; it
\* never modifies the scratch grid or the obstacle mask.
C7_AccelerateFrame == [][C7_AccelFrame]_vars

C7_Witness ==
  /\ last.op = "accel"
  /\ ~last.applied
  /\ obstacles[last.idx] = 0
  /\ params.accel # Zero
  /\ ~GtZero(Sub(heap[cells][3][last.idx], AccelW1(params)))
  /\ GtZero(Sub(heap[cells][6][last.idx], AccelW2(params)))
  /\ GtZero(Sub(heap[cells][7][last.idx], AccelW2(params)))

NoObstacles == \A i \in CellIdx(params) : obstacles[i] = 0

AllBlocked == \A i \in CellIdx(params) : obstacles[i] # 0

\* every cell pulls a local density that is finite and not zero
DensitiesNonZero ==
  \A i \in CellIdx(params) :
    LET ld == LocalDensity(Propagate(params, heap[cells], i % params.nx, i \div params.nx))
    IN IsFinite(ld) /\ ld # Zero

\* C9: on a grid of at least 2 x 2 cells without obstacles and with accel = 0,
\* the total density of the scratch grid after one sweep equals the total
\* density of the current grid before it, for every omega and every grid of
\* non-zero local densities (in exact arithmetic).
C9_MassConserved ==
  (pc = "swap" /\ NoObstacles /\ params.accel = Zero /\ DensitiesNonZero) =>
    total_density(params, heap[tmp_cells]) = total_density(params, heap[cells])

C9_Witness ==
  /\ pc = "swap"
  /\ NoObstacles
  /\ params.accel = Zero
  /\ DensitiesNonZero
  /\ params.omega = Rat(1, 2)
  /\ tot_u # Zero
  /\ \E i \in CellIdx(params) :
       LocalDensity(CellOf(heap[tmp_cells], i)) # LocalDensity(CellOf(heap[cells], i))

\* C10 (as claimed): when every cell is an obstacle, timestep and av_velocity
\* return a defined value: no NaN enters av_vels or the Reynolds number.
C10_DefinedWhenBlocked ==
  AllBlocked =>
    /\ \A t \in 0 .. (tt - 1) : ~IsNaN(av_vels[t])
    /\ pc \in {"write", "done"} => ~IsNaN(reynolds)

\* the scratch grid the sequential sweep leaves
SequentialScratch ==
  SweepUpTo(params, heap[cells], par.tmp0, obstacles, NCells(params))

\* C8 (as claimed): executing the per-cell updates of one sweep in any order
\* or interleaving, with no synchronisation, yields the same scratch grid and
\* the same returned mean velocity as the sequential sweep.
C8_AnyInterleaving ==
  pc = "par_done" =>
    /\ heap[tmp_cells] = SequentialScratch
    /\ av_vels[tt] = SweepResult(params, heap[cells], obstacles)

\* C8 (amended): in any order or interleaving the scratch grid is that of the
\* sequential sweep; the returned mean velocity is that of the sequential
\* sweep when no cell's read of tot_u and tot_cells is separated from its
\* write by another cell's write.
C8_ScratchOrderIndependent ==
  pc = "par_done" =>
    /\ heap[tmp_cells] = SequentialScratch
    /\ ~par.raced => av_vels[tt] = SweepResult(params, heap[cells], obstacles)

C8_Witness ==
  /\ pc = "par_done"
  /\ par.reordered
  /\ ~par.raced
  /\ Cardinality({i \in CellIdx(params) : obstacles[i] = 0}) >= 2
  /\ tot_cells = Cardinality({i \in CellIdx(params) : obstacles[i] = 0})
  /\ IsFinite(av_vels[tt])
  /\ av_vels[tt] # Zero

\* C11 (as claimed): a fluid cell whose nine pulled values sum to zero local
\* density gets a defined result: no non-finite value is written into scratch
\* or added to the running speed sum.
C11_ZeroDensityDefined ==
  (last.op = "sweep" /\ last.applied /\ LocalDensity(loc.s) = Zero) =>
    /\ \A d \in Dirs : IsFinite(heap[tmp_cells][d][last.idx])
    /\ IsFinite(tot_u)

\* the comparison a == b of two floats: a NaN equals nothing
FloatEq(a, b) == ~IsNaN(a) /\ ~IsNaN(b) /\ a = b

HasFreeCell == \E i \in CellIdx(params) : obstacles[i] = 0

\* C12 (as claimed): for every grid and mask with at least one free cell, the
\* mean speed timestep returns equals av_velocity of the scratch grid that
\* timestep wrote.
C12_DiagnosticsAgree ==
  (pc = "swap" /\ HasFreeCell) =>
    FloatEq(av_vels[tt], av_velocity(params, heap[tmp_cells], obstacles))

\* C13 (as claimed): the uniform equilibrium grid initialise builds is a fixed
\* point of the sweep with accel = 0: after the sweep every value of every
\* cell of scratch equals that of the current grid, and the returned mean
\* velocity is 0.
C13_EquilibriumFixed ==
  (pc = "swap" /\ params.accel = Zero) =>
    /\ \A d \in Dirs : \A i \in CellIdx(params) :
         heap[tmp_cells][d][i] = heap[cells][d][i]
    /\ av_vels[tt] = Zero

\* C14: in the sweep, for every y the value cell (0, y) pulls from the west is
\* speeds1 of cell (nx-1, y) of the current grid, and for every x the value
\* cell (x, 0) pulls from the south is speeds2 of cell (x, ny-1) of the current
\* grid.
C14_PeriodicWrap ==
  last.op = "sweep" =>
    LET x == last.idx % params.nx
        y == last.idx \div params.nx
    IN /\ x = 0 => loc.s[1] = heap[cells][1][(params.nx - 1) + y * params.nx]
       /\ y = 0 => loc.s[2] = heap[cells][2][x + (params.ny - 1) * params.nx]

C14_Witness ==
  /\ last.op = "sweep"
  /\ last.idx = 0
  /\ params.nx = 3
  /\ params.ny = 3
  /\ loc.s[2] = heap[cells][2][6]
  /\ heap[cells][2][6] # heap[cells][2][0]
  /\ heap[cells][2][6] # heap[cells][2][3]
  /\ heap[cells][1][2] # heap[cells][1][0]

C15_SeriesInv ==
  /\ DOMAIN av_vels = 0 .. (params.maxIters - 1)
  /\ tt \in 0 .. params.maxIters
  /\ pc \in {"reynolds", "write", "done"} => tt = params.maxIters
  /\ pc = "done" =>
       /\ Len(out.av_vels) = params.maxIters
       /\ \A k \in 1 .. params.maxIters : out.av_vels[k] = av_vels[k - 1]

C15_SeriesStep ==
  /\ \A t \in DOMAIN av_vels : t # tt => av_vels'[t] = av_vels[t]
  /\ (pc # "swap" /\ pc' = "swap") =>
       /\ last'.op = "return"
       /\ last'.idx = tt
       /\ tt' = tt
       /\ av_vels'[tt] = Div(tot_u, IntToFloat(tot_cells))
  /\ (pc' # "swap" \/ pc = "swap") => av_vels' = av_vels
  /\ tt' # tt => (tt' = tt + 1 /\ pc = "swap" /\ last.op = "return" /\ last.idx = tt)

\* C15: the series av_vels has maxIters elements; iteration tt stores the value
\* timestep returns in element tt, once, before tt is incremented; the elements
\* are written in increasing index order and no other step changes an element;
\* write_values prints the maxIters elements.
C15_SeriesAppendOnly == []C15_SeriesInv /\ [][C15_SeriesStep]_vars

C15_Witness ==
  /\ pc = "done"
  /\ params.maxIters = 2
  /\ tt = 2
  /\ av_vels[0] = Zero
  /\ av_vels[1] = Zero
  /\ Len(out.av_vels) = 2

\* C16 (as claimed): when any allocation of initialise fails the process
\* exits with failure status at once, before the buffer is written and before
\* the first iteration runs.
C16_AllocFailureFatal == mem.failed # {} => pc = "died"

\* C17 (as claimed): for positive nx and ny every array index accelerate_flow
\* and the sweep compute lies in 0 .. nx*ny-1, and every neighbour coordinate
\* in 0 .. nx-1 or 0 .. ny-1.
C17_IndicesInBounds ==
  /\ last.op \in {"accel", "sweep"} => last.idx \in CellIdx(params)
  /\ last.op = "sweep" =>
       /\ loc.x_e \in 0 .. (params.nx - 1)
       /\ loc.x_w \in 0 .. (params.nx - 1)
       /\ loc.y_s \in 0 .. (params.ny - 1)
       /\ loc.y_n \in 0 .. (params.ny - 1)
       /\ \A d \in Dirs :
            PullIndex(params, last.idx % params.nx, last.idx \div params.nx)[d]
              \in CellIdx(params)

\* the cells whose loop body, run in this sweep, pulled direction d from src
PulledBy(d, src) ==
  {k \in 1 .. Len(visits.sweep) :
     PullIndex(params, visits.sweep[k] % params.nx, visits.sweep[k] \div params.nx)[d]
       = src}

\* C18: for every grid of nx, ny >= 1 and every direction d, each value
\* (d, source cell) of the current grid is pulled by exactly one loop body of
\* a sweep, so the sweep neither duplicates nor drops a value of a direction;
\* while the sweep runs no value has been pulled twice.
C18_PullBijection ==
  /\ pc = "sweep" =>
       \A d \in Dirs : \A src \in CellIdx(params) : Cardinality(PulledBy(d, src)) <= 1
  /\ pc = "swap" =>
       \A d \in Dirs : \A src \in CellIdx(params) : Cardinality(PulledBy(d, src)) = 1
  /\ last.op = "sweep" =>
       \A d \in Dirs :
         loc.s[d] = heap[cells][d][PullIndex(params, last.idx % params.nx,
                                             last.idx \div params.nx)[d]]

C18_Witness ==
  /\ pc = "swap"
  /\ params.nx = 1
  /\ params.ny = 3
  /\ Len(visits.sweep) = 3
  /\ \E d \in Dirs : heap[cells][d][0] # heap[cells][d][2]

\* grid f without speeds0 of its obstacle cells
Observable(f) ==
  [d \in Dirs |-> [i \in CellIdx(params) |->
     IF d = 0 /\ obstacles[i] # 0 THEN Zero ELSE f[d][i]]]

C19_Step ==
  LET cur == Observable(heap[cells])
      scr == Observable(heap[tmp_cells])
      i == ii + jj * params.nx
  IN /\ (pc = "accel" /\ ii < params.nx) =>
          /\ Observable(heap'[cells])
               = Observable(AccelerateCell(params, cur, obstacles, ii))
          /\ Observable(heap'[tmp_cells]) = scr
     /\ (pc = "sweep" /\ jj < params.ny) =>
          /\ Observable(heap'[tmp_cells])
               = Observable(SweepCell(params, cur, scr, obstacles, ii, jj))
          /\ Observable(heap'[cells]) = cur
          /\ tot_u' = IF obstacles[i] = 0
                        THEN Add(tot_u, Speed(Propagate(params, cur, ii, jj)))
                        ELSE tot_u
          /\ tot_cells' = IF obstacles[i] = 0 THEN tot_cells + 1 ELSE tot_cells
     /\ (pc = "sweep" /\ ~(jj < params.ny)) =>
          av_vels' = [av_vels EXCEPT ![tt] = Div(tot_u, IntToFloat(tot_cells))]
     /\ pc = "reynolds" => reynolds' = calc_reynolds(params, cur, obstacles)
     /\ pc = "write" => out' = write_values(params, cur, obstacles, av_vels)
     /\ ~(pc = "accel" /\ ii < params.nx) /\ ~(pc = "sweep" /\ jj < params.ny)
          => heap' = heap
     /\ ~(pc = "sweep" /\ ~(jj < params.ny)) => av_vels' = av_vels
     /\ pc # "reynolds" => reynolds' = reynolds
     /\ pc # "write" => out' = out
     /\ params' = params
     /\ obstacles' = obstacles

\* C19: speeds0 of an obstacle cell, in either grid, never influences the
\* results. Every step computes all values of the fluid cells, speeds1..8 of
\* the obstacle cells, tot_u, tot_cells, av_vels, the Reynolds number and what
\* write_values writes from those same parts of the state before it, whatever
\* speeds0 of the obstacle cells hold; so two runs that differ only there agree
\* on all of these after any number of steps, hence of iterations.
C19_RestValueIgnored == [][C19_Step]_vars

C19_Witness ==
  /\ pc = "done"
  /\ tt = 2
  /\ \E i \in CellIdx(params) : obstacles[i] = 0
  /\ \E i \in CellIdx(params) :
       /\ obstacles[i] # 0
       /\ heap[cells][0][i] = NaN
       /\ heap[tmp_cells][0][i] = NaN
  /\ IsFinite(reynolds)
  /\ \A k \in 1 .. NCells(params) : IsFinite(out.final_state[k].pressure)
  /\ \A k \in 1 .. 2 : IsFinite(out.av_vels[k])

====
